---- MODULE Spec2Model ----
(***************************************************************************)
(* Workflow aggregate and ticket-dependency engine of sprint-planner:      *)
(* the session task lifecycle (SQLAlchemySessionRepository), the ticket    *)
(* dependency graph and the export ordering (SQLAlchemyTicketRepository).  *)
(* One session is modelled; its rows are the tables' contents.             *)
(***************************************************************************)
EXTENDS Integers, Sequences, FiniteSets, TLC

\* ------------------------------------------------------------------ bounds
NumTickets == 3
MaxEdges == 3
MaxRetry == 3
MaxTime == 2

\* ------------------------------------------------------------- value sets
Tickets == 1..NumTickets
Procs == {1, 2}
JobIds == {1, 2}
EntityGroups == {1, 2}
UserOrders == {0, 1}
TaskTypeValues == {"processing", "export", "adf_validation"}
TaskStatusValues == {"running", "completed", "failed", "cancelled"}
ErrorContexts == {"ctx_timeout", "ctx_rate_limit"}

\* Optional[...] columns: None is the empty tuple, a value v is <<v>>.
None == <<>>
Some(v) == <<v>>

VARIABLES
    session_tasks,        \* rows of table session_tasks for the session
    now,                  \* datetime.utcnow()
    ticket_dependencies,  \* rows of table ticket_dependencies: <<ticket_id, depends_on_ticket_id>>
    tickets,              \* rows of table tickets, by id
    last,                 \* the last repository call and what it returned or raised
    ordered,              \* the list returned by the last get_tickets_in_dependency_order
    pc,                   \* per request handler: where it stands
    req,                  \* per request handler: its arguments and what it has read
    session,              \* the row of table sessions: current_stage, status, completed_at
    session_validations,  \* rows of table session_validations for the session
    stages_seen,          \* history: the stages the session has been in
    invalidated_pass,     \* history: a passed validation was invalidated and no
                          \* complete_validation(passed=True) has been stored since
    sessions              \* rows of table sessions, by id (several users' sessions)

\* the session row, its validation row and the history variables
workflow == <<session, session_validations, stages_seen, invalidated_pass>>

vars == <<session_tasks, now, ticket_dependencies, tickets, last, ordered, pc, req,
          session, session_validations, stages_seen, invalidated_pass, sessions>>

NoCall == [op |-> "none", a |-> 0, b |-> 0, res |-> "none", ret |-> FALSE]
Call(op, a, b, res, ret) == [op |-> op, a |-> a, b |-> b, res |-> res, ret |-> ret]

IdleReq == [a |-> 0, b |-> 0, kind |-> "none", seen |-> FALSE, res |-> "none"]

\* Session(...) with the column defaults of status and completed_at
NewSession(current_stage) ==
    [current_stage |-> current_stage, status |-> "active", completed_at |-> None]

\* a dict of keyword arguments or column updates: a function from keys to values
EmptyDict == <<>>

\* setattr(row, key, value) for every key of `values` that is a column of the row
SetAttrs(row, values) ==
    [k \in DOMAIN row |-> IF k \in DOMAIN values THEN values[k] ELSE row[k]]

\* Session(**session_data) with its column defaults, created_at stamped at t
NewSessionRow(session_data, t) ==
    SetAttrs([current_stage |-> "upload", status |-> "active", completed_at |-> None,
              created_at |-> t, site_name |-> None, jira_user_id |-> None],
             session_data)

\* table sessions holding the one session SessionService.create_session stored
OneSession == [id \in {1} |-> NewSessionRow([current_stage |-> "upload"], 0)]

\* the session as SessionService.create_session stores it, with no validation row
InitWorkflow ==
    /\ sessions = OneSession
    /\ session = NewSession("upload")
    /\ session_validations = <<>>
    /\ stages_seen = {"upload"}
    /\ invalidated_pass = FALSE

\* ===================================================================
\* Session task lifecycle
\* ===================================================================

\* result.scalar_one_or_none() over the session's task rows
scalar_one_or_none(rows) == IF Len(rows) = 0 THEN None ELSE Some(rows[1])

\* SessionTask(...) as start_task constructs it; retry_count takes its column default
NewSessionTask(task_type, task_id, t) ==
    [task_id |-> task_id, task_type |-> task_type, status |-> "running",
     started_at |-> Some(t), completed_at |-> None, failed_at |-> None,
     retry_count |-> 0, failure_context |-> None]

\* mutant: a restart clears the retry counter
StartTaskUpdate_resets_retry(row, task_type, task_id, t) ==
    [row EXCEPT !.task_id = task_id, !.task_type = task_type, !.status = "running",
                !.started_at = Some(t), !.completed_at = None, !.failure_context = None,
                !.retry_count = 0]

\* the "update existing task" branch of start_task
StartTaskUpdate(row, task_type, task_id, t) ==
    [row EXCEPT !.task_id = task_id, !.task_type = task_type, !.status = "running",
                !.started_at = Some(t), !.completed_at = None, !.failure_context = None]

\* UniqueConstraint("session_id"): a second row for the session is refused at flush
uq_session_tasks_session_id(rows) == Len(rows) = 0

\* mutant: start_task always adds a row
StartTaskFlush_insert_only(existing_task, rows, task_type, task_id, t) ==
    IF uq_session_tasks_session_id(rows)
    THEN [rows |-> Append(rows, NewSessionTask(task_type, task_id, t)), res |-> "ok"]
    ELSE [rows |-> rows, res |-> "IntegrityError"]

\* the write half of start_task, given what its SELECT returned
StartTaskFlush(existing_task, rows, task_type, task_id, t) ==
    IF existing_task # None
    THEN [rows |-> IF Len(rows) = 0 THEN rows
                   ELSE [rows EXCEPT ![1] = StartTaskUpdate(rows[1], task_type, task_id, t)],
          res |-> "ok"]
    ELSE IF uq_session_tasks_session_id(rows)
         THEN [rows |-> Append(rows, NewSessionTask(task_type, task_id, t)), res |-> "ok"]
         ELSE [rows |-> rows, res |-> "IntegrityError"]

start_task(task_type, task_id) ==
    LET out == StartTaskFlush(scalar_one_or_none(session_tasks), session_tasks,
                              task_type, task_id, now)
    IN /\ session_tasks' = out.rows
       /\ last' = Call("start_task", task_id, task_type, out.res, FALSE)
       /\ UNCHANGED <<now, ticket_dependencies, tickets, ordered, pc, req, workflow, sessions>>

\* the writes of complete_task (lines 150-151)
CompleteTaskUpdate(row, t) ==
    [row EXCEPT !.status = "completed", !.completed_at = Some(t)]

\* the writes of fail_task (lines 161-164)
FailTaskUpdate(row, error_context, t) ==
    [row EXCEPT !.status = "failed", !.completed_at = Some(t),
                !.failure_context = Some(error_context), !.retry_count = @ + 1]

\* the retry ceiling of SessionTask.can_retry
RetryCeiling == 3

\* SessionTask.can_retry
can_retry(row) == row.status = "failed" /\ row.retry_count < RetryCeiling

complete_task ==
    /\ session_tasks' =
         IF scalar_one_or_none(session_tasks) # None
         THEN [session_tasks EXCEPT ![1] = CompleteTaskUpdate(@, now)]
         ELSE session_tasks
    /\ last' = Call("complete_task", 0, 0, "ok", FALSE)
    /\ UNCHANGED <<now, ticket_dependencies, tickets, ordered, pc, req, workflow, sessions>>

fail_task(error_context) ==
    /\ Len(session_tasks) > 0 => session_tasks[1].retry_count < MaxRetry
    /\ session_tasks' =
         IF scalar_one_or_none(session_tasks) # None
         THEN [session_tasks EXCEPT ![1] = FailTaskUpdate(@, error_context, now)]
         ELSE session_tasks
    /\ last' = Call("fail_task", 0, error_context, "ok", FALSE)
    /\ UNCHANGED <<now, ticket_dependencies, tickets, ordered, pc, req, workflow, sessions>>

\* the clock read by datetime.utcnow() moves on between calls
Tick ==
    /\ now < MaxTime
    /\ now' = now + 1
    /\ UNCHANGED <<session_tasks, ticket_dependencies, tickets, last, ordered, pc, req, workflow, sessions>>

DefaultTickets ==
    [t \in Tickets |-> [entity_group |-> 1, user_order |-> 0,
                        ready_for_jira |-> FALSE, jira_ticket_key |-> None,
                        jira_ticket_url |-> None]]

InitTask ==
    /\ session_tasks = <<>>
    /\ now = 0
    /\ ticket_dependencies = {}
    /\ tickets = DefaultTickets
    /\ last = NoCall
    /\ ordered = <<>>
    /\ pc = [p \in Procs |-> "idle"]
    /\ req = [p \in Procs |-> IdleReq]
    /\ InitWorkflow

NextTask ==
    \/ \E ty \in TaskTypeValues, j \in JobIds : start_task(ty, j)
    \/ complete_task
    \/ \E c \in ErrorContexts : fail_task(c)
    \/ Tick

SpecTask == InitTask /\ [][NextTask]_vars

\* ---- concurrent start_task requests, each in its own database session ----

\* the SELECT of start_task (lines 118-120)
StartTaskRead(p, task_type) ==
    /\ pc[p] = "idle"
    /\ pc' = [pc EXCEPT ![p] = "read"]
    /\ req' = [req EXCEPT ![p] = [a |-> p, b |-> 0, kind |-> task_type,
                                  seen |-> scalar_one_or_none(session_tasks) # None,
                                  res |-> "none"]]
    /\ UNCHANGED <<session_tasks, now, ticket_dependencies, tickets, last, ordered, workflow, sessions>>

\* the update-or-insert and flush of start_task (lines 122-141); the job id of
\* request p is p (uuid4 values differ between requests)
StartTaskWrite(p) ==
    /\ pc[p] = "read"
    /\ LET existing == IF req[p].seen THEN scalar_one_or_none(session_tasks) ELSE None
           out == StartTaskFlush(existing, session_tasks, req[p].kind, req[p].a, now)
       IN /\ session_tasks' = out.rows
          /\ req' = [req EXCEPT ![p].res = out.res]
          /\ last' = Call("start_task", req[p].a, req[p].kind, out.res, FALSE)
    /\ pc' = [pc EXCEPT ![p] = "done"]
    /\ UNCHANGED <<now, ticket_dependencies, tickets, ordered, workflow, sessions>>

\* the task row an earlier job (job 0) left behind: none, still running,
\* completed or failed
EarlierTaskRows ==
    {<<>>} \cup
    UNION { { <<NewSessionTask(ty, 0, 0)>>,
              <<CompleteTaskUpdate(NewSessionTask(ty, 0, 0), 0)>> } \cup
            { <<FailTaskUpdate(NewSessionTask(ty, 0, 0), c, 0)>> : c \in ErrorContexts }
            : ty \in TaskTypeValues }

InitTaskConc ==
    /\ session_tasks \in EarlierTaskRows
    /\ now = 1
    /\ ticket_dependencies = {}
    /\ tickets = DefaultTickets
    /\ last = NoCall
    /\ ordered = <<>>
    /\ pc = [p \in Procs |-> "idle"]
    /\ req = [p \in Procs |-> IdleReq]
    /\ InitWorkflow

NextTaskConc ==
    \/ \E p \in Procs, ty \in TaskTypeValues : StartTaskRead(p, ty)
    \/ \E p \in Procs : StartTaskWrite(p)

SpecTaskConc == InitTaskConc /\ [][NextTaskConc]_vars

\* ===================================================================
\* Ticket dependency graph
\* ===================================================================

\* all orderings of a finite set, as sequences
PermSeqs(S) ==
    { s \in [1..Cardinality(S) -> S] : \A i, j \in DOMAIN s : i # j => s[i] # s[j] }

\* the WHERE clauses of get_dependencies_for_ticket and get_dependents_for_ticket
IsDependency(E, t, x) == <<t, x>> \in E
IsDependent(E, t, x) == <<x, t>> \in E

\* A SELECT without ORDER BY returns its rows in an order the database picks.
\* rows[t] is the order in which the rows matching ticket t come back.
RECURSIVE RowOrdersUpTo(_, _, _)
RowOrdersUpTo(E, n, dependents) ==
    IF n = 0 THEN {<<>>}
    ELSE { Append(r, p) :
             r \in RowOrdersUpTo(E, n - 1, dependents),
             p \in PermSeqs({x \in Tickets : IF dependents THEN IsDependent(E, n, x)
                                                          ELSE IsDependency(E, n, x)}) }

\* the possible answers of get_dependencies_for_ticket / get_dependents_for_ticket,
\* for every ticket
DependencyRowOrders(E) == RowOrdersUpTo(E, NumTickets, FALSE)
DependentRowOrders(E) == RowOrdersUpTo(E, NumTickets, TRUE)

\* select depends_on_ticket_id where ticket_id == :ticket_id
get_dependencies_for_ticket(rows, ticket_id) == rows[ticket_id]

\* select ticket_id where depends_on_ticket_id == :ticket_id
get_dependents_for_ticket(rows, ticket_id) == rows[ticket_id]

\* mutant: the check constraint is missing from the table
ck_no_self_dependency_missing(ticket_id, depends_on_ticket_id) == TRUE

\* CheckConstraint("ticket_id != depends_on_ticket_id")
ck_no_self_dependency(ticket_id, depends_on_ticket_id) == ticket_id # depends_on_ticket_id

\* PrimaryKeyConstraint("ticket_id", "depends_on_ticket_id")
pk_ticket_dependencies(E, ticket_id, depends_on_ticket_id) ==
    <<ticket_id, depends_on_ticket_id>> \notin E

\* the INSERT of create_dependency at flush: the row is stored unless a table
\* constraint refuses it
CreateDependencyFlush(E, ticket_id, depends_on_ticket_id) ==
    IF ~ck_no_self_dependency(ticket_id, depends_on_ticket_id)
    THEN [rows |-> E, res |-> "IntegrityError:ck_no_self_dependency"]
    ELSE IF ~pk_ticket_dependencies(E, ticket_id, depends_on_ticket_id)
         THEN [rows |-> E, res |-> "IntegrityError:primary_key"]
         ELSE [rows |-> E \cup {<<ticket_id, depends_on_ticket_id>>}, res |-> "ok"]

\* can_reach of has_circular_dependency: depth-first search along depends-on
\* rows with the closure variable `visited`; returns the flag and `visited`
RECURSIVE can_reach(_, _, _, _)
RECURSIVE can_reach_any(_, _, _, _)
can_reach(rows, from_id, to_id, visited) ==
    IF from_id = to_id THEN [found |-> TRUE, visited |-> visited]
    ELSE IF from_id \in visited THEN [found |-> FALSE, visited |-> visited]
    ELSE can_reach_any(rows, get_dependencies_for_ticket(rows, from_id), to_id,
                       visited \cup {from_id})

\* the `for dep_id in deps` loop of can_reach
can_reach_any(rows, deps, to_id, visited) ==
    IF deps = <<>> THEN [found |-> FALSE, visited |-> visited]
    ELSE LET r == can_reach(rows, Head(deps), to_id, visited)
         IN IF r.found THEN r ELSE can_reach_any(rows, Tail(deps), to_id, r.visited)

\* mutant: the search runs from ticket_id towards depends_on_id
has_circular_dependency_reversed(rows, ticket_id, depends_on_id) ==
    IF ticket_id = depends_on_id THEN TRUE
    ELSE can_reach(rows, ticket_id, depends_on_id, {}).found

\* mutant: only a direct dependency of depends_on_id on ticket_id is seen
has_circular_dependency_direct(rows, ticket_id, depends_on_id) ==
    IF ticket_id = depends_on_id THEN TRUE
    ELSE \E i \in DOMAIN rows[depends_on_id] : rows[depends_on_id][i] = ticket_id

\* the value has_circular_dependency returns (lines 267-288)
has_circular_dependency_value(rows, ticket_id, depends_on_id) ==
    IF ticket_id = depends_on_id THEN TRUE
    ELSE can_reach(rows, depends_on_id, ticket_id, {}).found

create_dependency(ticket_id, depends_on_ticket_id) ==
    LET out == CreateDependencyFlush(ticket_dependencies, ticket_id, depends_on_ticket_id)
    IN /\ Cardinality(out.rows) <= MaxEdges
       /\ ticket_dependencies' = out.rows
       /\ last' = Call("create_dependency", ticket_id, depends_on_ticket_id, out.res, FALSE)
       /\ UNCHANGED <<session_tasks, now, tickets, ordered, pc, req, workflow, sessions>>

\* mutant: the DELETE lacks its second WHERE clause
remove_dependency_of_ticket(ticket_id, depends_on_ticket_id) ==
    /\ ticket_dependencies' = { e \in ticket_dependencies : e[1] # ticket_id }
    /\ last' = Call("remove_dependency", ticket_id, depends_on_ticket_id, "ok", FALSE)
    /\ UNCHANGED <<session_tasks, now, tickets, ordered, pc, req, workflow, sessions>>

remove_dependency(ticket_id, depends_on_ticket_id) ==
    /\ ticket_dependencies' = ticket_dependencies \ {<<ticket_id, depends_on_ticket_id>>}
    /\ last' = Call("remove_dependency", ticket_id, depends_on_ticket_id, "ok", FALSE)
    /\ UNCHANGED <<session_tasks, now, tickets, ordered, pc, req, workflow, sessions>>

has_circular_dependency(ticket_id, depends_on_id) ==
    \E rows \in DependencyRowOrders(ticket_dependencies) :
        /\ last' = Call("has_circular_dependency", ticket_id, depends_on_id, "ok",
                        has_circular_dependency_value(rows, ticket_id, depends_on_id))
        /\ UNCHANGED <<session_tasks, now, ticket_dependencies, tickets, ordered, pc, req, workflow, sessions>>

InitDep ==
    /\ session_tasks = <<>>
    /\ now = 0
    /\ ticket_dependencies = {}
    /\ tickets = DefaultTickets
    /\ last = NoCall
    /\ ordered = <<>>
    /\ pc = [p \in Procs |-> "idle"]
    /\ req = [p \in Procs |-> IdleReq]
    /\ InitWorkflow

NextDep ==
    \/ \E t, d \in Tickets : create_dependency(t, d)
    \/ \E t, d \in Tickets : remove_dependency(t, d)
    \/ \E t, d \in Tickets : has_circular_dependency(t, d)

SpecDep == InitDep /\ [][NextDep]_vars

\* str(ticket_id) and UUID(text): a UUID and its text form are different values
StrOfUUID(id) == <<"uuid", id>>
UUIDOfStr(text) == text[2]

\* get_dependency_graph: per ticket of the session, the text forms of what it
\* depends on and of its dependents, each in the order its query returned
get_dependency_graph(rows, drows) ==
    [ k \in { StrOfUUID(t) : t \in Tickets } |->
        [ depends_on |->
            [ i \in DOMAIN get_dependencies_for_ticket(rows, UUIDOfStr(k)) |->
                StrOfUUID(get_dependencies_for_ticket(rows, UUIDOfStr(k))[i]) ],
          dependents |->
            [ i \in DOMAIN get_dependents_for_ticket(drows, UUIDOfStr(k)) |->
                StrOfUUID(get_dependents_for_ticket(drows, UUIDOfStr(k))[i]) ] ] ]

\* the depends-on pairs a materialized graph holds
GraphEdges(graph) ==
    UNION { { <<UUIDOfStr(k), UUIDOfStr(graph[k].depends_on[i])>> :
                i \in DOMAIN graph[k].depends_on } : k \in DOMAIN graph }

\* ---- guarded insertion: create_dependency only after has_circular_dependency
\* ---- has just returned false, the two calls made back to back ----
guarded_create_dependency(ticket_id, depends_on_ticket_id) ==
    \E rows \in DependencyRowOrders(ticket_dependencies) :
        LET cyc == has_circular_dependency_value(rows, ticket_id, depends_on_ticket_id)
            out == CreateDependencyFlush(ticket_dependencies, ticket_id, depends_on_ticket_id)
        IN /\ ~cyc => Cardinality(out.rows) <= MaxEdges
           /\ ticket_dependencies' = IF cyc THEN ticket_dependencies ELSE out.rows
           /\ last' = Call("guarded_create_dependency", ticket_id, depends_on_ticket_id,
                           IF cyc THEN "not_created" ELSE out.res, cyc)
           /\ UNCHANGED <<session_tasks, now, tickets, ordered, pc, req, workflow, sessions>>

NextGuarded ==
    \/ \E t, d \in Tickets : guarded_create_dependency(t, d)
    \/ \E t, d \in Tickets : remove_dependency(t, d)

SpecGuarded == InitDep /\ [][NextGuarded]_vars

\* ---- two requests, each doing the check and then the insert ----

\* request p calls has_circular_dependency(t, d) and keeps the answer
GuardCheck(p, ticket_id, depends_on_ticket_id) ==
    /\ pc[p] = "idle"
    /\ \E rows \in DependencyRowOrders(ticket_dependencies) :
         req' = [req EXCEPT ![p] =
                   [a |-> ticket_id, b |-> depends_on_ticket_id, kind |-> "dependency",
                    seen |-> has_circular_dependency_value(rows, ticket_id,
                                                           depends_on_ticket_id),
                    res |-> "none"]]
    /\ pc' = [pc EXCEPT ![p] = "checked"]
    /\ UNCHANGED <<session_tasks, now, ticket_dependencies, tickets, last, ordered, workflow, sessions>>

\* request p calls create_dependency(t, d) if the answer was false
GuardInsert(p) ==
    /\ pc[p] = "checked"
    /\ LET out == CreateDependencyFlush(ticket_dependencies, req[p].a, req[p].b)
           res == IF req[p].seen THEN "not_created" ELSE out.res
       IN /\ ticket_dependencies' = IF req[p].seen THEN ticket_dependencies ELSE out.rows
          /\ req' = [req EXCEPT ![p].res = res]
          /\ last' = Call("guarded_create_dependency", req[p].a, req[p].b, res, req[p].seen)
    /\ pc' = [pc EXCEPT ![p] = "done"]
    /\ UNCHANGED <<session_tasks, now, tickets, ordered, workflow, sessions>>

NextDepConc ==
    \/ \E p \in Procs, t, d \in Tickets : GuardCheck(p, t, d)
    \/ \E p \in Procs : GuardInsert(p)

SpecDepConc == InitDep /\ [][NextDepConc]_vars

\* ===================================================================
\* Export ordering
\* ===================================================================

\* ORDER BY entity_group, user_order
SortKey(tk, t) == <<tk[t].entity_group, tk[t].user_order>>
KeyLess(k1, k2) == k1[1] < k2[1] \/ (k1[1] = k2[1] /\ k1[2] < k2[2])

\* the row orders an ORDER BY entity_group, user_order may return for the
\* tickets in S: rows with equal keys come back in any order
OrderByGroupAndUserOrder(tk, S) ==
    { s \in PermSeqs(S) :
        \A i, j \in DOMAIN s : i < j => ~KeyLess(SortKey(tk, s[j]), SortKey(tk, s[i])) }

\* Ticket.is_exported
is_exported(tk, t) == tk[t].jira_ticket_key # None

\* the rows get_export_ready_tickets selects
ExportReady(tk) == { t \in Tickets : tk[t].ready_for_jira /\ ~is_exported(tk, t) }

\* the possible answers of get_export_ready_tickets
get_export_ready_tickets(tk) == OrderByGroupAndUserOrder(tk, ExportReady(tk))

\* graph.get(str(ticket_id), {}).get("depends_on", [])
GraphDependsOn(graph, ticket_id) ==
    IF StrOfUUID(ticket_id) \in DOMAIN graph
    THEN graph[StrOfUUID(ticket_id)].depends_on
    ELSE <<>>

\* visit of get_tickets_in_dependency_order, on the closure state
\* st = [result, visited, temp_visited]; ticket_map is given by its keys
RECURSIVE visit(_, _, _, _)
RECURSIVE visit_dependencies(_, _, _, _)
\* mutant: a ticket met again on the current path is emitted at once
visit_emits_on_reentry(graph, ticket_map, ticket_id, st) ==
    IF ticket_id \in st.visited THEN st
    ELSE IF ticket_id \in st.temp_visited
         THEN [st EXCEPT !.result = Append(@, ticket_id)]
    ELSE LET entered == [st EXCEPT !.temp_visited = @ \cup {ticket_id}]
             after == visit_dependencies(graph, ticket_map,
                                         GraphDependsOn(graph, ticket_id), entered)
             left == [after EXCEPT !.temp_visited = @ \ {ticket_id},
                                   !.visited = @ \cup {ticket_id}]
         IN IF ticket_id \in ticket_map
            THEN [left EXCEPT !.result = Append(@, ticket_id)]
            ELSE left

visit(graph, ticket_map, ticket_id, st) ==
    IF ticket_id \in st.visited THEN st
    ELSE IF ticket_id \in st.temp_visited THEN st
    ELSE LET entered == [st EXCEPT !.temp_visited = @ \cup {ticket_id}]
             after == visit_dependencies(graph, ticket_map,
                                         GraphDependsOn(graph, ticket_id), entered)
             left == [after EXCEPT !.temp_visited = @ \ {ticket_id},
                                   !.visited = @ \cup {ticket_id}]
         IN IF ticket_id \in ticket_map
            THEN [left EXCEPT !.result = Append(@, ticket_id)]
            ELSE left

\* the `for dep_id in ...` loop of visit
visit_dependencies(graph, ticket_map, dep_ids, st) ==
    IF dep_ids = <<>> THEN st
    ELSE LET dep_uuid == UUIDOfStr(Head(dep_ids))
             next == IF dep_uuid \in ticket_map
                     THEN visit(graph, ticket_map, dep_uuid, st)
                     ELSE st
         IN visit_dependencies(graph, ticket_map, Tail(dep_ids), next)

\* the `for ticket in tickets: visit(ticket.id)` loop
RECURSIVE visit_all(_, _, _, _)
visit_all(graph, ticket_map, ready, st) ==
    IF ready = <<>> THEN st
    ELSE visit_all(graph, ticket_map, Tail(ready),
                   visit(graph, ticket_map, Head(ready), st))

SeqRange(s) == { s[i] : i \in DOMAIN s }

\* Kahn's algorithm on the ready tickets with a FIFO queue seeded and refilled
\* in the order of `ready`: st = [result, queue, emitted]
KahnUnmet(graph, ready, emitted, t) ==
    { d \in SeqRange(ready) \ emitted :
        \E i \in DOMAIN GraphDependsOn(graph, t) :
            UUIDOfStr(GraphDependsOn(graph, t)[i]) = d }

RECURSIVE KahnLoop(_, _, _)
KahnLoop(graph, ready, st) ==
    IF st.queue = <<>> THEN st.result
    ELSE LET n == Head(st.queue)
             emitted == st.emitted \cup {n}
             freed == SelectSeq(ready, LAMBDA t :
                         /\ t \notin emitted
                         /\ t \notin SeqRange(st.queue)
                         /\ KahnUnmet(graph, ready, st.emitted, t) # {}
                         /\ KahnUnmet(graph, ready, emitted, t) = {})
         IN KahnLoop(graph, ready,
                     [result |-> Append(st.result, n),
                      queue |-> Tail(st.queue) \o freed,
                      emitted |-> emitted])

\* mutant, and the order C10 names: Kahn's algorithm with a stable FIFO queue
KahnOrder(ready, graph) ==
    KahnLoop(graph, ready,
             [result |-> <<>>,
              queue |-> SelectSeq(ready, LAMBDA t : KahnUnmet(graph, ready, {}, t) = {}),
              emitted |-> {}])

\* the list get_tickets_in_dependency_order returns, given what its queries
\* returned (lines 176-213)
DependencyOrder(ready, graph) ==
    IF ready = <<>> THEN <<>>
    ELSE visit_all(graph, SeqRange(ready), ready,
                   [result |-> <<>>, visited |-> {}, temp_visited |-> {}]).result

get_tickets_in_dependency_order ==
    \E ready \in get_export_ready_tickets(tickets),
       rows \in DependencyRowOrders(ticket_dependencies),
       drows \in DependentRowOrders(ticket_dependencies) :
        /\ ordered' = DependencyOrder(ready, get_dependency_graph(rows, drows))
        /\ last' = Call("get_tickets_in_dependency_order", 0, 0, "ok", FALSE)
        /\ UNCHANGED <<session_tasks, now, ticket_dependencies, tickets, pc, req, workflow, sessions>>

\* a ticket as create_ticket and the review and export steps leave it
TicketRows ==
    [entity_group : EntityGroups, user_order : UserOrders,
     ready_for_jira : BOOLEAN, jira_ticket_key : {None}, jira_ticket_url : {None}]
    \cup [entity_group : EntityGroups, user_order : UserOrders,
          ready_for_jira : {TRUE}, jira_ticket_key : {Some("PROJ-1")},
          jira_ticket_url : {Some("url-1")}]

\* the dependency tables create_dependency can have filled
DependencyTables ==
    { E \in SUBSET { e \in Tickets \X Tickets : ck_no_self_dependency(e[1], e[2]) } :
        Cardinality(E) <= MaxEdges }

InitOrder ==
    /\ session_tasks = <<>>
    /\ now = 0
    /\ ticket_dependencies \in DependencyTables
    /\ tickets \in [Tickets -> TicketRows]
    /\ last = NoCall
    /\ ordered = <<>>
    /\ pc = [p \in Procs |-> "idle"]
    /\ req = [p \in Procs |-> IdleReq]
    /\ InitWorkflow

NextOrder == get_tickets_in_dependency_order

SpecOrder == InitOrder /\ [][NextOrder]_vars

\* ===================================================================
\* Stage policy
\* ===================================================================

SessionStageValues ==
    {"site_info_collection", "upload", "processing", "review", "jira_export", "completed"}

STAGE_ORDER ==
    <<"site_info_collection", "upload", "processing", "review", "jira_export", "completed">>

\* STAGE_ORDER.index(stage); 0 stands for the ValueError of a stage not listed
StageIndex(stage) ==
    IF \E i \in DOMAIN STAGE_ORDER : STAGE_ORDER[i] = stage
    THEN CHOOSE i \in DOMAIN STAGE_ORDER : STAGE_ORDER[i] = stage
    ELSE 0

\* mutant: any stage up to the next one is allowed
can_transition_to_or_earlier(sess, new_stage) ==
    LET current_idx == StageIndex(sess.current_stage)
        new_idx == StageIndex(new_stage)
    IN IF current_idx = 0 \/ new_idx = 0 THEN FALSE
       ELSE new_idx <= current_idx + 1

\* mutant: only the next stage is allowed
can_transition_to_next_only(sess, new_stage) ==
    LET current_idx == StageIndex(sess.current_stage)
        new_idx == StageIndex(new_stage)
    IN IF current_idx = 0 \/ new_idx = 0 THEN FALSE
       ELSE new_idx = current_idx + 1

\* mutant: one step back is allowed as well
can_transition_to_or_back(sess, new_stage) ==
    LET current_idx == StageIndex(sess.current_stage)
        new_idx == StageIndex(new_stage)
    IN IF current_idx = 0 \/ new_idx = 0 THEN FALSE
       ELSE new_idx = current_idx + 1 \/ new_idx = current_idx
            \/ new_idx = current_idx - 1

\* mutant: any later stage is allowed
can_transition_to_forward(sess, new_stage) ==
    LET current_idx == StageIndex(sess.current_stage)
        new_idx == StageIndex(new_stage)
    IN IF current_idx = 0 \/ new_idx = 0 THEN FALSE
       ELSE new_idx >= current_idx

\* Session.can_transition_to
can_transition_to(sess, new_stage) ==
    LET current_idx == StageIndex(sess.current_stage)
        new_idx == StageIndex(new_stage)
    IN IF current_idx = 0 \/ new_idx = 0 THEN FALSE
       ELSE new_idx = current_idx + 1 \/ new_idx = current_idx

\* mutant: every transition marks the session completed
TransitionStageUpdate_always_completes(sess, new_stage, t) ==
    [sess EXCEPT !.current_stage = new_stage, !.status = "completed",
                 !.completed_at = Some(t)]

\* the writes of transition_stage (lines 95-100)
TransitionStageUpdate(sess, new_stage, t) ==
    IF new_stage = "completed"
    THEN [sess EXCEPT !.current_stage = new_stage, !.status = "completed",
                      !.completed_at = Some(t)]
    ELSE [sess EXCEPT !.current_stage = new_stage]

transition_stage(new_stage) ==
    /\ session' = IF can_transition_to(session, new_stage)
                  THEN TransitionStageUpdate(session, new_stage, now)
                  ELSE session
    /\ last' = Call("transition_stage", StageIndex(new_stage), 0,
                    IF can_transition_to(session, new_stage) THEN "ok" ELSE "ValueError",
                    FALSE)
    /\ stages_seen' = stages_seen \cup {session'.current_stage}
    /\ UNCHANGED <<session_tasks, now, ticket_dependencies, tickets, ordered, pc, req,
                   session_validations, invalidated_pass, sessions>>

can_transition_to_stage(target_stage) ==
    /\ last' = Call("can_transition_to_stage", StageIndex(target_stage), 0, "ok",
                    can_transition_to(session, target_stage))
    /\ UNCHANGED <<session_tasks, now, ticket_dependencies, tickets, ordered, pc, req,
                   workflow, sessions>>

\* the stages create_session is given for a new session
InitialStages == {"site_info_collection", "upload"}

InitStage ==
    /\ session_tasks = <<>>
    /\ now = 0
    /\ ticket_dependencies = {}
    /\ tickets = DefaultTickets
    /\ last = NoCall
    /\ ordered = <<>>
    /\ pc = [p \in Procs |-> "idle"]
    /\ req = [p \in Procs |-> IdleReq]
    /\ session \in { NewSession(s) : s \in InitialStages }
    /\ sessions = [id \in {1} |-> NewSessionRow([current_stage |-> session.current_stage], 0)]
    /\ session_validations = <<>>
    /\ stages_seen = {session.current_stage}
    /\ invalidated_pass = FALSE

NextStage ==
    \/ \E s \in SessionStageValues : transition_stage(s)
    \/ \E s \in SessionStageValues : can_transition_to_stage(s)
    \/ Tick

SpecStage == InitStage /\ [][NextStage]_vars

\* ===================================================================
\* Validation lifecycle and export writes
\* ===================================================================

ValidationResults == {"results_clean", "results_errors"}
JiraKeys == {"PROJ-1", "PROJ-2"}
JiraUrls == {"url-1"}

\* SessionValidation(validation_status=PROCESSING) with its column defaults
NewSessionValidation ==
    [validation_status |-> "processing", validation_passed |-> FALSE,
     last_validated_at |-> None, last_invalidated_at |-> None,
     validation_results |-> None]

\* mutant: the table has no check constraint
ck_validation_passed_only_when_completed_missing(row) == TRUE

\* CheckConstraint("validation_passed = false OR validation_status = 'completed'")
ck_validation_passed_only_when_completed(row) ==
    row.validation_passed = FALSE \/ row.validation_status = "completed"

\* the write of start_validation on an existing row (line 184)
StartValidationUpdate(row) ==
    [row EXCEPT !.validation_status = "processing"]

\* start_validation up to its flush: the row is written unless the check
\* constraint refuses it
StartValidationFlush(rows) ==
    LET row == IF scalar_one_or_none(rows) # None
               THEN StartValidationUpdate(rows[1])
               ELSE NewSessionValidation
    IN IF ck_validation_passed_only_when_completed(row)
       THEN [rows |-> <<row>>, res |-> "ok"]
       ELSE [rows |-> rows,
             res |-> "IntegrityError:ck_validation_passed_only_when_completed"]

start_validation ==
    LET out == StartValidationFlush(session_validations)
    IN /\ session_validations' = out.rows
       /\ last' = Call("start_validation", 0, 0, out.res, FALSE)
       /\ UNCHANGED <<session_tasks, now, ticket_dependencies, tickets, ordered, pc, req,
                      session, stages_seen, invalidated_pass, sessions>>

\* the writes of complete_validation (lines 201-204)
CompleteValidationUpdate(row, passed, results, t) ==
    [row EXCEPT !.validation_status = "completed", !.validation_passed = passed,
                !.validation_results = Some(results), !.last_validated_at = Some(t)]

\* the `passed` argument as recorded with the call
PassedArg(passed) == IF passed THEN 1 ELSE 0

complete_validation(passed, results) ==
    /\ session_validations' =
         IF scalar_one_or_none(session_validations) # None
         THEN [session_validations EXCEPT
                 ![1] = CompleteValidationUpdate(@, passed, results, now)]
         ELSE session_validations
    /\ last' = Call("complete_validation", PassedArg(passed), 0, "ok", FALSE)
    /\ invalidated_pass' =
         IF scalar_one_or_none(session_validations) # None /\ passed
         THEN FALSE ELSE invalidated_pass
    /\ UNCHANGED <<session_tasks, now, ticket_dependencies, tickets, ordered, pc, req,
                   session, stages_seen, sessions>>

\* the writes of invalidate_validation (lines 214-215)
InvalidateValidationUpdate(row, t) ==
    [row EXCEPT !.validation_passed = FALSE, !.last_invalidated_at = Some(t)]

invalidate_validation ==
    /\ session_validations' =
         IF scalar_one_or_none(session_validations) # None
         THEN [session_validations EXCEPT ![1] = InvalidateValidationUpdate(@, now)]
         ELSE session_validations
    /\ last' = Call("invalidate_validation", 0, 0, "ok", FALSE)
    /\ invalidated_pass' =
         IF scalar_one_or_none(session_validations) # None
            /\ session_validations[1].validation_passed
         THEN TRUE ELSE invalidated_pass
    /\ UNCHANGED <<session_tasks, now, ticket_dependencies, tickets, ordered, pc, req,
                   session, stages_seen, sessions>>

\* SessionValidation.is_export_ready (the model property)
SessionValidation_is_export_ready(row) ==
    row.validation_status = "completed" /\ row.validation_passed

\* mutant: readiness read off the status column alone
is_export_ready_status_only(rows) ==
    IF scalar_one_or_none(rows) = None THEN FALSE
    ELSE rows[1].validation_status = "completed"

\* the value is_export_ready returns (lines 220-234)
is_export_ready_value(rows) ==
    IF scalar_one_or_none(rows) = None THEN FALSE
    ELSE LET validation == rows[1]
         IN IF ~validation.validation_passed THEN FALSE
            ELSE IF validation.last_invalidated_at # None
                    /\ validation.last_validated_at # None
                 THEN validation.last_validated_at[1] > validation.last_invalidated_at[1]
                 ELSE validation.validation_passed

is_export_ready ==
    /\ last' = Call("is_export_ready", 0, 0, "ok", is_export_ready_value(session_validations))
    /\ UNCHANGED <<session_tasks, now, ticket_dependencies, tickets, ordered, pc, req,
                   workflow, sessions>>

\* mutant: only the URL is stored
MarkTicketExportedUpdate_url_only(row, jira_key, jira_url) ==
    [row EXCEPT !.jira_ticket_url = Some(jira_url)]

\* the writes of mark_ticket_exported (lines 219-220)
MarkTicketExportedUpdate(row, jira_key, jira_url) ==
    [row EXCEPT !.jira_ticket_key = Some(jira_key), !.jira_ticket_url = Some(jira_url)]

\* ticket ids a caller may pass: those of the session and one that has no row
TicketIds == Tickets \cup {0}

mark_ticket_exported(ticket_id, jira_key, jira_url) ==
    /\ tickets' = IF ticket_id \in DOMAIN tickets
                  THEN [tickets EXCEPT
                          ![ticket_id] = MarkTicketExportedUpdate(@, jira_key, jira_url)]
                  ELSE tickets
    /\ last' = Call("mark_ticket_exported", ticket_id, jira_key, "ok", FALSE)
    /\ UNCHANGED <<session_tasks, now, ticket_dependencies, ordered, pc, req, workflow, sessions>>

\* tickets the review step has marked ready for export
ReviewedTickets ==
    [t \in Tickets |-> [entity_group |-> 1, user_order |-> 0,
                        ready_for_jira |-> TRUE, jira_ticket_key |-> None,
                        jira_ticket_url |-> None]]

InitValidation ==
    /\ session_tasks = <<>>
    /\ now = 0
    /\ ticket_dependencies = {}
    /\ tickets = ReviewedTickets
    /\ last = NoCall
    /\ ordered = <<>>
    /\ pc = [p \in Procs |-> "idle"]
    /\ req = [p \in Procs |-> IdleReq]
    /\ InitWorkflow

NextValidation ==
    \/ start_validation
    \/ \E passed \in BOOLEAN, results \in ValidationResults :
         complete_validation(passed, results)
    \/ invalidate_validation
    \/ is_export_ready
    \/ \E t \in TicketIds, k \in JiraKeys, u \in JiraUrls : mark_ticket_exported(t, k, u)
    \/ Tick

SpecValidation == InitValidation /\ [][NextValidation]_vars

\* ===================================================================
\* Sessions table: creation, update, stage transition, retention cleanup
\* ===================================================================

SessionIds == {1, 2}

\* the session_data dicts create_session is called with
SessionDataValues == {EmptyDict} \cup { [current_stage |-> s] : s \in InitialStages }

\* the updates dicts update_session is called with
UpdateDicts ==
    { [site_name |-> Some("Updated Name")], [status |-> "exporting"],
      [current_stage |-> "review"], [no_such_attribute |-> "x"] }

\* retention_days, in clock ticks
RetentionDays == {0, 1}

\* get_session_by_id: the row or None
get_session_by_id(table, session_id) ==
    IF session_id \in DOMAIN table THEN Some(table[session_id]) ELSE None

\* the table with the row of `session_id` added or replaced
PutRow(table, session_id, row) ==
    [id \in DOMAIN table \cup {session_id} |-> IF id = session_id THEN row ELSE table[id]]

\* the table without the rows of `ids`
DeleteRows(table, ids) == [id \in DOMAIN table \ ids |-> table[id]]

\* create_session; the primary key is a fresh uuid4
create_session(session_data) ==
    \E id \in SessionIds \ DOMAIN sessions :
        /\ sessions' = PutRow(sessions, id, NewSessionRow(session_data, now))
        /\ last' = Call("create_session", id, 0, "ok", FALSE)
        /\ UNCHANGED <<session_tasks, now, ticket_dependencies, tickets, ordered, pc, req,
                       workflow>>

update_session(session_id, updates) ==
    /\ sessions' = IF get_session_by_id(sessions, session_id) = None THEN sessions
                   ELSE PutRow(sessions, session_id, SetAttrs(sessions[session_id], updates))
    /\ last' = Call("update_session", session_id, 0,
                    IF get_session_by_id(sessions, session_id) = None
                    THEN "ValueError:session_not_found" ELSE "ok",
                    FALSE)
    /\ UNCHANGED <<session_tasks, now, ticket_dependencies, tickets, ordered, pc, req,
                   workflow>>

\* what transition_stage raises, or "ok" (lines 86-93)
TransitionStageResult(table, session_id, new_stage) ==
    IF get_session_by_id(table, session_id) = None THEN "ValueError:session_not_found"
    ELSE IF ~can_transition_to(table[session_id], new_stage)
         THEN "ValueError:cannot_transition"
         ELSE "ok"

\* transition_stage on the sessions table
transition_stage_by_id(session_id, new_stage) ==
    LET res == TransitionStageResult(sessions, session_id, new_stage)
    IN /\ sessions' = IF res = "ok"
                      THEN PutRow(sessions, session_id,
                                  TransitionStageUpdate(sessions[session_id], new_stage, now))
                      ELSE sessions
       /\ last' = Call("transition_stage", session_id, StageIndex(new_stage), res, FALSE)
       /\ UNCHANGED <<session_tasks, now, ticket_dependencies, tickets, ordered, pc, req,
                      workflow>>

\* the rows the DELETE of cleanup_expired_sessions matches (lines 242-247)
CleanupMatches(table, retention_days, t) ==
    { id \in DOMAIN table :
        /\ table[id].created_at < t - retention_days
        /\ table[id].status = "completed" }

\* ON DELETE CASCADE: the task, validation, ticket and dependency rows modelled
\* are those of session 1 and go with it
cleanup_expired_sessions(retention_days) ==
    LET deleted == CleanupMatches(sessions, retention_days, now)
    IN /\ sessions' = DeleteRows(sessions, deleted)
       /\ session_tasks' = IF 1 \in deleted THEN <<>> ELSE session_tasks
       /\ session_validations' = IF 1 \in deleted THEN <<>> ELSE session_validations
       /\ tickets' = IF 1 \in deleted THEN <<>> ELSE tickets
       /\ ticket_dependencies' = IF 1 \in deleted THEN {} ELSE ticket_dependencies
       /\ last' = Call("cleanup_expired_sessions", retention_days, Cardinality(deleted),
                       "ok", FALSE)
       /\ UNCHANGED <<now, ordered, pc, req, session, stages_seen, invalidated_pass>>

InitSessions ==
    /\ session_tasks = <<>>
    /\ now = 0
    /\ ticket_dependencies = {}
    /\ tickets = DefaultTickets
    /\ last = NoCall
    /\ ordered = <<>>
    /\ pc = [p \in Procs |-> "idle"]
    /\ req = [p \in Procs |-> IdleReq]
    /\ session = NewSession("upload")
    /\ session_validations = <<>>
    /\ stages_seen = {"upload"}
    /\ invalidated_pass = FALSE
    /\ sessions = EmptyDict

NextSessions ==
    \/ \E d \in SessionDataValues : create_session(d)
    \/ \E id \in SessionIds, u \in UpdateDicts : update_session(id, u)
    \/ \E id \in SessionIds, s \in SessionStageValues : transition_stage_by_id(id, s)
    \/ \E r \in RetentionDays : cleanup_expired_sessions(r)
    \/ Tick

SpecSessions == InitSessions /\ [][NextSessions]_vars

\* ---- the session's row with its task and validation rows ----

InitWriters ==
    /\ session_tasks = <<>>
    /\ now = 0
    /\ ticket_dependencies = {}
    /\ tickets = DefaultTickets
    /\ last = NoCall
    /\ ordered = <<>>
    /\ pc = [p \in Procs |-> "idle"]
    /\ req = [p \in Procs |-> IdleReq]
    /\ InitWorkflow

NextWriters ==
    \/ \E id \in SessionIds, u \in UpdateDicts : update_session(id, u)
    \/ \E id \in SessionIds, s \in SessionStageValues : transition_stage_by_id(id, s)
    \/ start_task("processing", 1)
    \/ complete_task
    \/ fail_task("ctx_timeout")
    \/ start_validation
    \/ \E passed \in BOOLEAN : complete_validation(passed, "results_clean")
    \/ invalidate_validation

SpecWriters == InitWriters /\ [][NextWriters]_vars

\* ---- concurrent transition_stage requests, each in its own database session ----

\* get_session_by_id of transition_stage (line 86): the request keeps the row it read
TransitionStageRead(p, new_stage) ==
    /\ pc[p] = "idle"
    /\ pc' = [pc EXCEPT ![p] = "read"]
    /\ req' = [req EXCEPT ![p] = [a |-> StageIndex(new_stage), b |-> 0,
                                  kind |-> session.current_stage,
                                  seen |-> session.status = "completed",
                                  res |-> "none"]]
    /\ UNCHANGED <<session_tasks, now, ticket_dependencies, tickets, last, ordered,
                   workflow, sessions>>

\* the policy check on the row read and the flush (lines 90-102): the UPDATE
\* carries the columns whose value differs from the one read
TransitionStageWrite(p) ==
    /\ pc[p] = "read"
    /\ LET new_stage == STAGE_ORDER[req[p].a]
           allowed == can_transition_to([current_stage |-> req[p].kind], new_stage)
       IN /\ session' =
               IF ~allowed THEN session
               ELSE [session EXCEPT
                       !.current_stage = IF new_stage # req[p].kind THEN new_stage ELSE @,
                       !.status = IF new_stage = "completed" /\ ~req[p].seen
                                  THEN "completed" ELSE @,
                       !.completed_at = IF new_stage = "completed" THEN Some(now) ELSE @]
          /\ req' = [req EXCEPT ![p].res = IF allowed THEN "ok" ELSE "ValueError"]
          /\ last' = Call("transition_stage", req[p].a, 0,
                          IF allowed THEN "ok" ELSE "ValueError", FALSE)
    /\ stages_seen' = stages_seen \cup {session'.current_stage}
    /\ pc' = [pc EXCEPT ![p] = "done"]
    /\ UNCHANGED <<session_tasks, now, ticket_dependencies, tickets, ordered,
                   session_validations, invalidated_pass, sessions>>

\* the request ends (get_db commits and closes); the worker takes the next one
RequestDone(p) ==
    /\ pc[p] = "done"
    /\ pc' = [pc EXCEPT ![p] = "idle"]
    /\ req' = [req EXCEPT ![p] = IdleReq]
    /\ UNCHANGED <<session_tasks, now, ticket_dependencies, tickets, last, ordered,
                   workflow, sessions>>

NextStageConc ==
    \/ \E p \in Procs, s \in SessionStageValues : TransitionStageRead(p, s)
    \/ \E p \in Procs : TransitionStageWrite(p)
    \/ \E p \in Procs : RequestDone(p)

SpecStageConc == InitWriters /\ [][NextStageConc]_vars

\* ---- the export phase: ordering queries and per-ticket export writes ----

\* get_export_ready_tickets as a call: the list it returns
export_ready_tickets ==
    \E ready \in get_export_ready_tickets(tickets) :
        /\ ordered' = ready
        /\ last' = Call("get_export_ready_tickets", 0, 0, "ok", FALSE)
        /\ UNCHANGED <<session_tasks, now, ticket_dependencies, tickets, pc, req,
                       workflow, sessions>>

\* the tickets as the review step leaves them: some marked ready, none exported
TicketsAfterReview ==
    { [t \in Tickets |-> [DefaultTickets[t] EXCEPT !.ready_for_jira = t \in R]] :
        R \in SUBSET Tickets }

InitExport ==
    /\ session_tasks = <<>>
    /\ now = 0
    /\ ticket_dependencies \in DependencyTables
    /\ tickets \in TicketsAfterReview
    /\ last = NoCall
    /\ ordered = <<>>
    /\ pc = [p \in Procs |-> "idle"]
    /\ req = [p \in Procs |-> IdleReq]
    /\ InitWorkflow

NextExport ==
    \/ \E t \in TicketIds, k \in JiraKeys, u \in JiraUrls : mark_ticket_exported(t, k, u)
    \/ export_ready_tickets
    \/ get_tickets_in_dependency_order

SpecExport == InitExport /\ [][NextExport]_vars

\* ===================================================================
\* Ticket content: the large-description flag
\* ===================================================================

\* the character limit of Ticket.needs_attachment
AttachmentThreshold == 30000

\* description values (Text, not null): a text, given by its length
DescriptionLengths ==
    {0, 1, AttachmentThreshold - 1, AttachmentThreshold, AttachmentThreshold + 1,
     AttachmentThreshold + 5000}
Descriptions == { Some(n) : n \in DescriptionLengths }

\* len(text)
TextLen(text) == text[1]

\* Ticket.character_count: `len(self.description) if self.description else 0`
character_count(row) ==
    IF row.description # None /\ TextLen(row.description) # 0
    THEN TextLen(row.description)
    ELSE 0

\* mutant: the flag is raised at the limit itself
needs_attachment_at_limit(row) == character_count(row) >= AttachmentThreshold

\* Ticket.needs_attachment
needs_attachment(row) == character_count(row) > AttachmentThreshold

\* Ticket(...) with a description
TicketWithDescription(description) ==
    [entity_group |-> 1, user_order |-> 0, ready_for_jira |-> FALSE,
     jira_ticket_key |-> None, jira_ticket_url |-> None, description |-> description]

\* update_ticket(ticket_id, {"description": text})
update_ticket(ticket_id, updates) ==
    /\ tickets' = IF ticket_id \in DOMAIN tickets
                  THEN [tickets EXCEPT ![ticket_id] = SetAttrs(@, updates)]
                  ELSE tickets
    /\ last' = Call("update_ticket", ticket_id, 0,
                    IF ticket_id \in DOMAIN tickets THEN "ok" ELSE "ValueError:ticket_not_found",
                    FALSE)
    /\ UNCHANGED <<session_tasks, now, ticket_dependencies, ordered, pc, req, workflow, sessions>>

\* a read of ticket.needs_attachment, with ticket.character_count
read_needs_attachment(ticket_id) ==
    /\ last' = Call("needs_attachment", ticket_id, character_count(tickets[ticket_id]), "ok",
                    needs_attachment(tickets[ticket_id]))
    /\ UNCHANGED <<session_tasks, now, ticket_dependencies, tickets, ordered, pc, req,
                   workflow, sessions>>

InitContent ==
    /\ session_tasks = <<>>
    /\ now = 0
    /\ ticket_dependencies = {}
    /\ tickets \in [Tickets -> { TicketWithDescription(d) : d \in Descriptions }]
    /\ last = NoCall
    /\ ordered = <<>>
    /\ pc = [p \in Procs |-> "idle"]
    /\ req = [p \in Procs |-> IdleReq]
    /\ InitWorkflow

NextContent ==
    \/ \E t \in TicketIds, d \in Descriptions :
         update_ticket(t, [description |-> d])
    \/ \E t \in Tickets : read_needs_attachment(t)

SpecContent == InitContent /\ [][NextContent]_vars

\* ===================================================================
\* SessionService: ownership checks in front of the repository
\* ===================================================================

\* Jira user ids of the callers
UserIds == {"user-123", "different-user"}

\* what the Jira calls of SessionService.create_session come back with
JiraOutcomes == {"has_access", "no_access", "JiraAuthError", "JiraAPIError"}

\* Session.is_recoverable
is_recoverable(row) == row.status # "completed" /\ row.current_stage # "completed"

\* SessionService.create_session: the session is stored for the caller once
\* Jira has confirmed access to the project
SessionService_create_session(user_id, jira) ==
    \E id \in SessionIds \ DOMAIN sessions :
        /\ sessions' =
             IF jira = "has_access"
             THEN PutRow(sessions, id,
                         NewSessionRow([jira_user_id |-> Some(user_id),
                                        current_stage |-> "upload"], now))
             ELSE sessions
        /\ last' = Call("SessionService.create_session", id, user_id,
                        CASE jira = "has_access" -> "ok"
                          [] jira = "no_access" -> "SessionError:user_fixable:no_project_access"
                          [] jira = "JiraAuthError" -> "AuthorizationError"
                          [] OTHER -> "ExternalServiceError",
                        FALSE)
        /\ UNCHANGED <<session_tasks, now, ticket_dependencies, tickets, ordered, pc, req,
                       workflow>>

\* mutant: the ownership check is missing
ServiceTransitionResult_no_owner_check(table, session_id, new_stage, user_id) ==
    IF get_session_by_id(table, session_id) = None THEN "ResourceNotFoundError"
    ELSE IF ~can_transition_to(table[session_id], new_stage)
         THEN "SessionError:user_fixable:cannot_transition"
         ELSE TransitionStageResult(table, session_id, new_stage)

\* what SessionService.transition_stage raises, or the repository's result
ServiceTransitionResult(table, session_id, new_stage, user_id) ==
    IF get_session_by_id(table, session_id) = None THEN "ResourceNotFoundError"
    ELSE IF table[session_id].jira_user_id # Some(user_id)
         THEN "SessionError:user_fixable:no_access"
         ELSE IF ~can_transition_to(table[session_id], new_stage)
              THEN "SessionError:user_fixable:cannot_transition"
              ELSE TransitionStageResult(table, session_id, new_stage)

\* SessionService.transition_stage
SessionService_transition_stage(session_id, new_stage, user_id) ==
    LET res == ServiceTransitionResult(sessions, session_id, new_stage, user_id)
    IN /\ sessions' = IF res = "ok"
                      THEN PutRow(sessions, session_id,
                                  TransitionStageUpdate(sessions[session_id], new_stage, now))
                      ELSE sessions
       /\ last' = Call("SessionService.transition_stage", session_id, user_id, res, FALSE)
       /\ UNCHANGED <<session_tasks, now, ticket_dependencies, tickets, ordered, pc, req,
                      workflow>>

\* what recover_session raises, or "ok"
RecoverSessionResult(table, session_id, user_id) ==
    IF get_session_by_id(table, session_id) = None THEN "ResourceNotFoundError"
    ELSE IF table[session_id].jira_user_id # Some(user_id)
         THEN "SessionError:user_fixable:no_access"
         ELSE IF ~is_recoverable(table[session_id])
              THEN "SessionError:user_fixable:not_recoverable"
              ELSE "ok"

\* SessionService.recover_session; ready_to_continue is returned on success
recover_session(session_id, user_id) ==
    LET res == RecoverSessionResult(sessions, session_id, user_id)
    IN /\ last' = Call("SessionService.recover_session", session_id, user_id, res,
                       res = "ok")
       /\ UNCHANGED <<session_tasks, now, ticket_dependencies, tickets, ordered, pc, req,
                      workflow, sessions>>

NextService ==
    \/ \E u \in UserIds, j \in JiraOutcomes : SessionService_create_session(u, j)
    \/ \E id \in SessionIds, s \in SessionStageValues, u \in UserIds :
         SessionService_transition_stage(id, s, u)
    \/ \E id \in SessionIds, u \in UserIds : recover_session(id, u)

SpecService == InitSessions /\ [][NextService]_vars

\* ---- reachability along depends-on rows, as a relation ----

\* one step of closing a relation under composition
ComposeStep(R) ==
    R \cup { <<p[1][1], p[2][2]>> : p \in { q \in R \X R : q[1][2] = q[2][1] } }

RECURSIVE TransitiveClosure(_)
TransitiveClosure(R) ==
    IF ComposeStep(R) = R THEN R ELSE TransitiveClosure(ComposeStep(R))

\* d depends on t directly or through other tickets
Reaches(E, d, t) == <<d, t>> \in TransitiveClosure(E)

HasCycle(E) == \E t \in Tickets : Reaches(E, t, t)

\* ===================================================================
\* Claims
\* ===================================================================

\* C1: start_task on a session whose task is still running is rejected with
\* TaskAlreadyRunning and the task row still shows the first job as running.
C1_RunningTaskRejectsStart ==
    [][ (Len(session_tasks) > 0 /\ session_tasks[1].status = "running"
         /\ last'.op = "start_task" /\ last'.a # session_tasks[1].task_id)
        => (last'.res = "TaskAlreadyRunning" /\ session_tasks' = session_tasks) ]_vars

\* C2: two interleaved start_task calls for one session cannot both succeed.
C2_AtMostOneStartSucceeds ==
    ~(\A p \in Procs : pc[p] = "done" /\ req[p].res = "ok")

\* C3: after any sequence of create_dependency and remove_dependency calls the
\* stored depends-on relation contains no directed cycle.
C3_StoredRelationAcyclic == ~HasCycle(ticket_dependencies)

\* C5: create_dependency(ticket, depends_on) when depends_on already reaches
\* ticket fails with CircularDependency and leaves the rows as they were.
C5_CycleClosingEdgeRejected ==
    [][ \A t, d \in Tickets :
          (Reaches(ticket_dependencies, d, t)
           /\ last'.op = "create_dependency" /\ last'.a = t /\ last'.b = d)
          => (last'.res = "CircularDependency"
              /\ ticket_dependencies' = ticket_dependencies) ]_vars

\* C6: create_dependency(a, a) always fails on the self-dependency constraint
\* and adds no row, whatever rows the table holds.
C6_SelfDependencyRefused ==
    [][ (last'.op = "create_dependency" /\ last'.a = last'.b)
        => (last'.res = "IntegrityError:ck_no_self_dependency"
            /\ ticket_dependencies' = ticket_dependencies
            /\ \A a \in Tickets : <<a, a>> \notin ticket_dependencies') ]_vars

\* C6 witness: a self-dependency was attempted on a table that holds rows
C6_Witness ==
    /\ last.op = "create_dependency" /\ last.a = last.b
    /\ Cardinality(ticket_dependencies) >= 2

\* C7: has_circular_dependency(t, d) is true exactly when t = d or t is
\* reachable from d along depends-on rows, also on a relation that already
\* holds a cycle, and it leaves the rows alone.
C7_CheckIsReachability ==
    [][ last'.op = "has_circular_dependency"
        => /\ last'.ret = (last'.a = last'.b
                           \/ Reaches(ticket_dependencies, last'.b, last'.a))
           /\ ticket_dependencies' = ticket_dependencies ]_vars

\* C7 witness: the check answered true through a transitive path, and it
\* answered on a relation that holds a cycle
C7_Witness ==
    /\ last.op = "has_circular_dependency" /\ last.ret
    /\ last.a # last.b
    /\ <<last.b, last.a>> \notin ticket_dependencies
    /\ HasCycle(ticket_dependencies)

\* C4: from an empty graph, when every create_dependency(t, d) is performed
\* only after has_circular_dependency(t, d) has just returned false, with
\* arbitrary remove_dependency calls in between, get_dependency_graph holds no
\* cycle.
C4_GuardedInsertionKeepsGraphAcyclic ==
    \A rows \in DependencyRowOrders(ticket_dependencies),
       drows \in DependentRowOrders(ticket_dependencies) :
        ~HasCycle(GraphEdges(get_dependency_graph(rows, drows)))

\* C4 witness: the guard has just refused an edge that would have closed a
\* cycle through two stored edges
C4_Witness ==
    /\ last.op = "guarded_create_dependency" /\ last.ret /\ last.a # last.b
    /\ <<last.b, last.a>> \notin ticket_dependencies
    /\ Cardinality(ticket_dependencies) >= 2

\* C8: when two guarded insertions interleave at their check and insert steps
\* the resulting graph is still acyclic.
C8_InterleavedGuardedInsertionAcyclic ==
    (\A p \in Procs : pc[p] = "done") => ~HasCycle(ticket_dependencies)

\* the depends-on rows between two export-ready tickets
ReadyEdges == { e \in ticket_dependencies :
                  e[1] \in ExportReady(tickets) /\ e[2] \in ExportReady(tickets) }

PositionIn(s, t) == CHOOSE i \in DOMAIN s : s[i] = t

IsPermutationOfReady(s) ==
    /\ SeqRange(s) = ExportReady(tickets)
    /\ Len(s) = Cardinality(ExportReady(tickets))

\* every dependency between two ready tickets comes before its dependent
RespectsReadyEdges(s) ==
    \A e \in ReadyEdges : PositionIn(s, e[2]) < PositionIn(s, e[1])

OrderingJustReturned == last.op = "get_tickets_in_dependency_order"

\* C9: get_tickets_in_dependency_order returns a valid topological order: for
\* every row (x depends on y) with x and y both export-ready, y comes before x.
C9_ValidTopologicalOrder ==
    OrderingJustReturned => (IsPermutationOfReady(ordered) /\ RespectsReadyEdges(ordered))

\* C10 as stated: on an acyclic ready subgraph the export order equals the
\* order of Kahn's algorithm with a stable FIFO queue seeded and refilled in
\* (entity_group, user_order) order.
C10_EqualsKahnOrder ==
    (OrderingJustReturned /\ ~HasCycle(ReadyEdges))
    => \E ready \in get_export_ready_tickets(tickets),
          rows \in DependencyRowOrders(ticket_dependencies),
          drows \in DependentRowOrders(ticket_dependencies) :
           ordered = KahnOrder(ready, get_dependency_graph(rows, drows))

\* C10 amended: on an acyclic ready subgraph the export order is a depth-first
\* post-order seeded in (entity_group, user_order) order: it is a valid
\* topological order, and a ticket y stands ahead of a ticket x of smaller
\* (entity_group, user_order) only if x, or a ticket sorted at or before x,
\* depends on y directly or through other ready tickets.
C10_DepthFirstPostOrder ==
    (OrderingJustReturned /\ ~HasCycle(ReadyEdges))
    => /\ IsPermutationOfReady(ordered)
       /\ RespectsReadyEdges(ordered)
       /\ \A i, j \in DOMAIN ordered :
            (i < j /\ KeyLess(SortKey(tickets, ordered[j]), SortKey(tickets, ordered[i])))
            => \E r \in ExportReady(tickets) :
                 /\ ~KeyLess(SortKey(tickets, ordered[j]), SortKey(tickets, r))
                 /\ Reaches(ReadyEdges, r, ordered[i])

\* C10 witness: an order was returned for an acyclic ready subgraph in which a
\* dependency was pulled ahead of a ticket of smaller (entity_group, user_order)
\* that does not depend on it
C10_Witness ==
    /\ OrderingJustReturned /\ ~HasCycle(ReadyEdges)
    /\ \E i, j \in DOMAIN ordered :
         /\ i < j
         /\ KeyLess(SortKey(tickets, ordered[j]), SortKey(tickets, ordered[i]))
         /\ ~Reaches(ReadyEdges, ordered[j], ordered[i])

\* C11: when the dependency subgraph over the ready tickets holds a cycle, the
\* export ordering returns the ready tickets in plain (entity_group,
\* user_order) sequence and its result is flagged as the degraded fallback.
C11_CycleFallbackPlainAndFlagged ==
    (OrderingJustReturned /\ HasCycle(ReadyEdges))
    => (ordered \in get_export_ready_tickets(tickets) /\ last.res = "cycle_fallback")

\* C12: two invocations of get_tickets_in_dependency_order on the same
\* tickets, dependency rows and (entity_group, user_order) values return
\* identical sequences.
C12_RepeatedCallSameOrder ==
    [][ (last.op = "get_tickets_in_dependency_order"
         /\ last'.op = "get_tickets_in_dependency_order"
         /\ tickets' = tickets /\ ticket_dependencies' = ticket_dependencies)
        => ordered' = ordered ]_vars

\* C13: in every state reached by start_validation, complete_validation and
\* invalidate_validation calls, validation_passed implies that
\* validation_status is completed.
C13_PassedOnlyWhenCompleted ==
    \A i \in DOMAIN session_validations :
        session_validations[i].validation_passed
        => session_validations[i].validation_status = "completed"

\* C13 witness: start_validation reached a validation that had passed and the
\* check constraint refused its write
C13_Witness ==
    /\ last.op = "start_validation"
    /\ last.res = "IntegrityError:ck_validation_passed_only_when_completed"
    /\ Len(session_validations) > 0
    /\ session_validations[1].validation_passed

\* C14: once invalidate_validation has hit a passed validation,
\* is_export_ready is false through any further calls until
\* complete_validation(passed=True) is stored; with no validation row it is
\* false as well.
C14_InvalidatedStaysNotReady ==
    /\ invalidated_pass => ~is_export_ready_value(session_validations)
    /\ session_validations = <<>> => ~is_export_ready_value(session_validations)
    /\ (last.op = "is_export_ready" /\ (invalidated_pass \/ session_validations = <<>>))
       => ~last.ret

\* C14 witness: after the invalidation of a pass and a restarted validation,
\* is_export_ready was asked and said no
C14_Witness ==
    /\ invalidated_pass
    /\ last.op = "is_export_ready" /\ ~last.ret
    /\ session_validations[1].validation_status = "processing"

\* passed, and the last-passed time is not older than the last-invalidated time
ExportPermitted(rows) ==
    /\ Len(rows) > 0
    /\ rows[1].validation_passed
    /\ (rows[1].last_invalidated_at = None
        \/ (rows[1].last_validated_at # None
            /\ rows[1].last_validated_at[1] >= rows[1].last_invalidated_at[1]))

\* C15: is_export_ready returns true exactly when the validation has passed
\* and its last-passed time is greater than or equal to its last-invalidated
\* time (equal times and a never-invalidated pass count as ready).
C15_ReadyIffPassedAndNotOlder ==
    last.op = "is_export_ready" => (last.ret = ExportPermitted(session_validations))

\* C16: mark_ticket_exported takes effect on a ticket only while
\* is_export_ready is true for the session.
C16_ExportWriteOnlyWhenReady ==
    [][ (last'.op = "mark_ticket_exported" /\ tickets' # tickets)
        => is_export_ready_value(session_validations) ]_vars

\* C17 as stated: at COMPLETED, can_transition_to is false for every target
\* and every transition_stage call fails.
C17_CompletedDeniesEveryTarget ==
    [][ session.current_stage = "completed"
        => /\ (last'.op = "can_transition_to_stage" => ~last'.ret)
           /\ (last'.op = "transition_stage" => last'.res # "ok") ]_vars

\* C17 amended: at COMPLETED, can_transition_to is false for every target
\* other than COMPLETED itself, every transition_stage call to another stage
\* fails, and stage and status stay COMPLETED.
C17_CompletedNeverLeft ==
    [][ session.current_stage = "completed"
        => /\ (last'.op = "can_transition_to_stage"
               => (last'.ret <=> last'.a = StageIndex("completed")))
           /\ (last'.op = "transition_stage"
               => (last'.res = "ok" <=> last'.a = StageIndex("completed")))
           /\ session'.current_stage = "completed"
           /\ session'.status = "completed" ]_vars

\* C17 witness: a transition out of COMPLETED was refused
C17_Witness ==
    /\ session.current_stage = "completed"
    /\ last.op = "transition_stage" /\ last.res = "ValueError"

\* C18 as stated: a session at stage s cannot transition to s itself.
C18_SameStageDenied ==
    [][ (last'.op = "can_transition_to_stage"
         /\ last'.a = StageIndex(session.current_stage))
        => ~last'.ret ]_vars

\* C18 amended: a session at stage s can transition to s itself:
\* can_transition_to(s) is true and transition_stage(s) succeeds and leaves
\* the stage at s.
C18_SameStageAllowed ==
    [][ /\ (last'.op = "can_transition_to_stage"
            /\ last'.a = StageIndex(session.current_stage))
           => last'.ret
        /\ (last'.op = "transition_stage"
            /\ last'.a = StageIndex(session.current_stage))
           => (last'.res = "ok" /\ session'.current_stage = session.current_stage) ]_vars

\* C18 witness: a session in REVIEW was asked about REVIEW and allowed it
C18_Witness ==
    /\ session.current_stage = "review"
    /\ last.op = "can_transition_to_stage" /\ last.a = StageIndex("review")
    /\ last.ret

\* a transition_stage call from stage `from` to stage `to` in this step
BackEdgeCall(from, to) ==
    /\ session.current_stage = from
    /\ last'.op = "transition_stage" /\ last'.a = StageIndex(to)

\* C19 as stated: REVIEW to PROCESSING and JIRA_EXPORT to REVIEW are legal:
\* transition_stage succeeds and sets the stage.
C19_BackEdgesLegal ==
    [][ /\ BackEdgeCall("review", "processing")
           => (last'.res = "ok" /\ session'.current_stage = "processing")
        /\ BackEdgeCall("jira_export", "review")
           => (last'.res = "ok" /\ session'.current_stage = "review") ]_vars

\* C19 amended: REVIEW to PROCESSING and JIRA_EXPORT to REVIEW are refused:
\* transition_stage raises and leaves the session as it was.
C19_BackEdgesRefused ==
    [][ (BackEdgeCall("review", "processing") \/ BackEdgeCall("jira_export", "review"))
        => (last'.res = "ValueError" /\ session' = session) ]_vars

\* C19 witness: a session in JIRA_EXPORT was refused the move back to REVIEW
C19_Witness ==
    /\ session.current_stage = "jira_export"
    /\ last.op = "transition_stage" /\ last.a = StageIndex("review")
    /\ last.res = "ValueError"

\* the stages seen are all the stages from the earliest one seen up to the
\* current one
NoStageSkipped ==
    \A s1 \in stages_seen, s2 \in SessionStageValues :
        (StageIndex(s1) < StageIndex(s2)
         /\ StageIndex(s2) <= StageIndex(session.current_stage))
        => s2 \in stages_seen

\* C20: the immediate successor of the current stage is an allowed target,
\* any stage two or more positions ahead is denied, and a session is in
\* COMPLETED only after having been in every stage since its initial one.
C20_NoStageSkipped ==
    /\ []NoStageSkipped
    /\ [][ \A s \in SessionStageValues :
             (last'.op \in {"transition_stage", "can_transition_to_stage"}
              /\ last'.a = StageIndex(s))
             => /\ StageIndex(s) = StageIndex(session.current_stage) + 1
                   => (IF last'.op = "transition_stage"
                       THEN last'.res = "ok" /\ session'.current_stage = s
                       ELSE last'.ret)
                /\ StageIndex(s) >= StageIndex(session.current_stage) + 2
                   => (IF last'.op = "transition_stage"
                       THEN last'.res = "ValueError" /\ session' = session
                       ELSE ~last'.ret) ]_vars

\* C20 witness: a session created at the first stage is in COMPLETED and has
\* been in all six stages
C20_Witness ==
    /\ session.current_stage = "completed"
    /\ stages_seen = SessionStageValues

\* C21: in every state reached through create_session, transition_stage and
\* update_session, a session's status is completed exactly when its stage is
\* COMPLETED.
C21_CompletedStatusIffCompletedStage ==
    \A id \in DOMAIN sessions :
        sessions[id].status = "completed" <=> sessions[id].current_stage = "completed"

\* C22: after creation, only transition_stage changes a session's
\* current_stage; update_session and the task and validation lifecycle calls
\* leave it alone.
C22_OnlyTransitionWritesStage ==
    [][ \A id \in DOMAIN sessions \cap DOMAIN sessions' :
          sessions'[id].current_stage # sessions[id].current_stage
          => last'.op = "transition_stage" ]_vars

\* the call of this step is transition_stage(id, STAGE_ORDER[idx])
TransitionCall(id, idx) ==
    /\ last'.op = "transition_stage" /\ last'.a = id /\ last'.b = idx
    /\ now' = now

\* C23: a transition_stage call whose target the policy denies, or whose
\* session does not exist, fails with the invalid-transition error carrying
\* the source and target stages and leaves every session row unchanged.
C23_DeniedTransitionTypedError ==
    [][ \A id \in SessionIds, idx \in DOMAIN STAGE_ORDER :
          (TransitionCall(id, idx)
           /\ (id \notin DOMAIN sessions
               \/ ~can_transition_to(sessions[id], STAGE_ORDER[idx])))
          => (last'.res = "InvalidStageTransitionError" /\ sessions' = sessions) ]_vars

C25_RepeatedTransitionIdempotent ==
    [][ (last.op = "transition_stage" /\ last.res = "ok"
         /\ last'.op = "transition_stage" /\ last'.a = last.a /\ last'.b = last.b
         /\ now' = now)
        => (last'.res = "ok" /\ sessions' = sessions) ]_vars

\* C26: when transition_stage calls interleave at their read, check and write
\* steps, every change of the stored stage is a step the policy allows from
\* the value it overwrites.
C26_NoStaleStageWrite ==
    [][ session'.current_stage # session.current_stage
        => can_transition_to(session, session'.current_stage) ]_vars

\* C27: once a session's stage is COMPLETED no later operation changes its
\* stage, status or completed_at, or deletes it.
C27_CompletedReadOnly ==
    [][ \A id \in DOMAIN sessions :
          sessions[id].current_stage = "completed"
          => /\ id \in DOMAIN sessions'
             /\ sessions'[id].current_stage = sessions[id].current_stage
             /\ sessions'[id].status = sessions[id].status
             /\ sessions'[id].completed_at = sessions[id].completed_at ]_vars

\* the sessions created before the cutoff that are not completed
ExpiredNotCompleted(table, retention_days, t) ==
    { id \in DOMAIN table :
        table[id].created_at < t - retention_days /\ table[id].status # "completed" }

\* C28: cleanup_expired_sessions(retention_days) deletes exactly the sessions
\* created before the cutoff that are not completed, returns their number and
\* leaves every other session in place.
C28_CleanupDeletesExpiredNotCompleted ==
    [][ (last'.op = "cleanup_expired_sessions" /\ now' = now)
        => /\ sessions' = DeleteRows(sessions,
                                     ExpiredNotCompleted(sessions, last'.a, now))
           /\ last'.b = Cardinality(ExpiredNotCompleted(sessions, last'.a, now)) ]_vars

\* C29: a session has at most one task row, and start_task on a session whose
\* task is completed or failed succeeds by overwriting that row in place: it
\* is then running with the new job id and task kind.
C29_SingleTaskRowOverwritten ==
    /\ [](Len(session_tasks) <= 1)
    /\ [][ (Len(session_tasks) > 0
            /\ session_tasks[1].status \in {"completed", "failed"}
            /\ last'.op = "start_task" /\ now' = now)
           => /\ last'.res = "ok"
              /\ Len(session_tasks') = 1
              /\ session_tasks'[1].status = "running"
              /\ session_tasks'[1].task_id = last'.a
              /\ session_tasks'[1].task_type = last'.b ]_vars

\* C29 witness: a failed task was overwritten by a job of another kind
C29_Witness ==
    /\ last.op = "start_task" /\ last.res = "ok"
    /\ Len(session_tasks) = 1
    /\ session_tasks[1].retry_count > 0
    /\ session_tasks[1].task_type = "export" /\ session_tasks[1].status = "running"

\* C30: retry_count changes only in fail_task, by exactly one per call;
\* start_task and complete_task leave it as it is, and start_task is not
\* refused when can_retry is false.
C30_RetryCountOnlyByFail ==
    [][ (Len(session_tasks) > 0 /\ Len(session_tasks') > 0 /\ now' = now)
        => /\ last'.op = "fail_task"
              => session_tasks'[1].retry_count = session_tasks[1].retry_count + 1
           /\ last'.op \in {"start_task", "complete_task"}
              => session_tasks'[1].retry_count = session_tasks[1].retry_count
           /\ (last'.op = "start_task" /\ ~can_retry(session_tasks[1]))
              => (last'.res = "ok" /\ session_tasks'[1].status = "running") ]_vars

\* C30 witness: a task that failed as often as the retry ceiling was started
\* again and kept its count
C30_Witness ==
    /\ last.op = "start_task" /\ last.res = "ok"
    /\ Len(session_tasks) = 1
    /\ session_tasks[1].status = "running"
    /\ session_tasks[1].retry_count = RetryCeiling

\* C31: after fail_task(ctx) on a session that has a task, the task's status
\* is failed, its failed_at is set, its failure_context is ctx and its
\* retry_count is one more than before.
C31_FailTaskRecordsFailure ==
    [][ (Len(session_tasks) > 0 /\ last'.op = "fail_task" /\ now' = now)
        => /\ session_tasks'[1].status = "failed"
           /\ session_tasks'[1].failed_at # None
           /\ session_tasks'[1].failure_context = Some(last'.b)
           /\ session_tasks'[1].retry_count = session_tasks[1].retry_count + 1 ]_vars

\* C32: start_validation leaves the validation in status processing with the
\* results payload cleared, whether or not a validation row existed.
C32_StartValidationClearsResults ==
    [][ (last'.op = "start_validation" /\ now' = now)
        => /\ Len(session_validations') = 1
           /\ session_validations'[1].validation_status = "processing"
           /\ session_validations'[1].validation_results = None ]_vars

\* C33: complete_task and fail_task for a session without a task row, and
\* complete_validation and invalidate_validation for a session without a
\* validation row, fail with an error instead of returning normally.
C33_MissingRecordFailsLoudly ==
    [][ ((last'.op \in {"complete_task", "fail_task"} /\ Len(session_tasks) = 0)
         \/ (last'.op \in {"complete_validation", "invalidate_validation"}
             /\ Len(session_validations) = 0))
        => last'.res # "ok" ]_vars

\* C35: remove_dependency(ticket, depends_on) succeeds whether or not the row
\* exists, removes exactly that row when it is present and leaves every other
\* row unchanged.
C35_RemoveDependencyUnconditional ==
    [][ last'.op = "remove_dependency"
        => /\ last'.res = "ok"
           /\ <<last'.a, last'.b>> \notin ticket_dependencies'
           /\ \A e \in (ticket_dependencies \cup ticket_dependencies')
                       \ {<<last'.a, last'.b>>} :
                e \in ticket_dependencies /\ e \in ticket_dependencies' ]_vars

\* C35 witness: a removal was asked for a row that is not stored while the
\* ticket has another dependency and the reverse row is stored
C35_Witness ==
    /\ last.op = "remove_dependency" /\ last.res = "ok"
    /\ <<last.b, last.a>> \in ticket_dependencies
    /\ \E d \in Tickets : <<last.a, d>> \in ticket_dependencies

C39_ReadinessChecksAgree ==
    Len(session_validations) > 0
    => (SessionValidation_is_export_ready(session_validations[1])
        <=> is_export_ready_value(session_validations))

\* C40: complete_task and fail_task applied to a task that is already
\* completed, failed or cancelled leave the task row as it is; a running task
\* stops running only in complete_task or fail_task.
C40_TerminalTaskUntouched ==
    [][ (Len(session_tasks) > 0 /\ Len(session_tasks') > 0 /\ now' = now)
        => /\ (session_tasks[1].status \in {"completed", "failed", "cancelled"}
               /\ last'.op \in {"complete_task", "fail_task"})
              => session_tasks' = session_tasks
           /\ (session_tasks[1].status = "running"
               /\ session_tasks'[1].status # "running")
              => last'.op \in {"complete_task", "fail_task"} ]_vars

\* C34: mark_ticket_exported(t, key, url) stores key and URL on t, so that t
\* is exported, and leaves every other ticket and every other column of t as
\* they were; for an id that has no ticket nothing changes; an exported ticket
\* stays exported, and get_export_ready_tickets and
\* get_tickets_in_dependency_order return exactly the tickets that are ready
\* and not exported.
C34_ExportWritePerTicket ==
    /\ [][ last'.op = "mark_ticket_exported"
           => IF last'.a \in DOMAIN tickets
              THEN /\ tickets'[last'.a].jira_ticket_key = Some(last'.b)
                   /\ tickets'[last'.a].jira_ticket_url \in { Some(u) : u \in JiraUrls }
                   /\ is_exported(tickets', last'.a)
                   /\ tickets'[last'.a].ready_for_jira = tickets[last'.a].ready_for_jira
                   /\ SortKey(tickets', last'.a) = SortKey(tickets, last'.a)
                   /\ \A o \in Tickets \ {last'.a} : tickets'[o] = tickets[o]
              ELSE tickets' = tickets ]_vars
    /\ [][ \A t \in Tickets : is_exported(tickets, t) => is_exported(tickets', t) ]_vars
    /\ [](last.op \in {"get_export_ready_tickets", "get_tickets_in_dependency_order"}
          => /\ \A t \in Tickets : is_exported(tickets, t) => t \notin SeqRange(ordered)
             /\ \A t \in Tickets : (tickets[t].ready_for_jira /\ ~is_exported(tickets, t))
                                   => t \in SeqRange(ordered))

\* C34 witness: after the export of one ready ticket was recorded, the
\* dependency order was asked for and holds the ready tickets still to be
\* exported, one of which depends on the exported one
C34_Witness ==
    /\ last.op = "get_tickets_in_dependency_order"
    /\ \E t \in Tickets :
         /\ is_exported(tickets, t) /\ tickets[t].ready_for_jira
         /\ t \notin SeqRange(ordered)
         /\ \E o \in SeqRange(ordered) : <<o, t>> \in ticket_dependencies
    /\ Len(ordered) >= 2

\* C36: needs_attachment is true for a description of 30001 characters and
\* longer, and false for one of 30000 characters or fewer, an empty one and a
\* missing one.
C36_AttachmentBoundary ==
    /\ \A t \in DOMAIN tickets :
         needs_attachment(tickets[t])
         <=> (tickets[t].description # None /\ TextLen(tickets[t].description) >= 30001)
    /\ last.op = "needs_attachment"
       => (last.ret <=> (tickets[last.a].description # None
                         /\ TextLen(tickets[last.a].description) > 30000))

\* C36 witness: the flag was read as true on a description of 30001
\* characters while another ticket holds one of exactly 30000
C36_Witness ==
    /\ last.op = "needs_attachment" /\ last.ret /\ last.b = 30001
    /\ \E t \in DOMAIN tickets :
         /\ tickets[t].description = Some(30000)
         /\ ~needs_attachment(tickets[t])

\* a SessionError of category user_fixable
UserFixableSessionError(res) ==
    res \in {"SessionError:user_fixable:no_access",
             "SessionError:user_fixable:cannot_transition",
             "SessionError:user_fixable:not_recoverable"}

\* C37: SessionService.transition_stage and recover_session called with a
\* user id other than the session's jira_user_id fail with a user-fixable
\* SessionError and leave the session row, its stage and status included, as
\* it was.
C37_OnlyOwnerActs ==
    [][ (last'.op \in {"SessionService.transition_stage", "SessionService.recover_session"}
         /\ last'.a \in DOMAIN sessions
         /\ sessions[last'.a].jira_user_id # Some(last'.b))
        => /\ UserFixableSessionError(last'.res)
           /\ ~last'.ret
           /\ sessions' = sessions ]_vars

\* C37 witness: another user's transition_stage was refused on a session its
\* owner has taken to REVIEW
C37_Witness ==
    /\ last.op = "SessionService.transition_stage"
    /\ last.res = "SessionError:user_fixable:no_access"
    /\ last.a \in DOMAIN sessions
    /\ sessions[last.a].current_stage = "review"
    /\ sessions[last.a].jira_user_id # Some(last.b)

====
